---- MODULE Spec2Model ----
(***************************************************************************)
(* Stepper motor controller (src/main.c, ATmega, avr-gcc: int is 16 bits). *)
(*                                                                         *)
(* Two execution contexts share m_stepper_delay and m_stepper_position:    *)
(*   - ISR(USART_RXC_vect): assembles received bytes into m_received and,  *)
(*     on '\n', interprets the line as a speed or a position command;      *)
(*   - main(): an endless loop that snapshots both values between cli()    *)
(*     and sei() and drives the coils through stepper_rotate().            *)
(* The handler runs to completion (interrupts are disabled inside an AVR   *)
(* interrupt handler), so it is one action; the foreground is split at     *)
(* every access to shared memory and at every coil write.                  *)
(***************************************************************************)
EXTENDS Integers, Sequences, FiniteSets, TLC

(***************************************************************************)
(* Program constants.                                                      *)
(***************************************************************************)
SEQ_SIZE == 8

RECEIVED_SIZE == 7

INT16_MAX == 32767

INT16_MIN == -32768

seq_cw == <<1, 3, 2, 6, 4, 12, 8, 9>>

seq_ccw == <<9, 8, 12, 4, 6, 2, 3, 1>>

(***************************************************************************)
(* Bounds of the model.                                                    *)
(***************************************************************************)
\* lines the sender transmits in one behaviour of Spec
MaxLines == 2

\* lines the sender transmits in one behaviour of SpecParse
MaxParseLines == 2

\* lines the sender transmits in one behaviour of SpecFair
MaxFairLines == 2

(***************************************************************************)
(* 8- and 16-bit arithmetic.                                               *)
(***************************************************************************)
Lo(w) == w % 256

Hi(w) == (w \div 256) % 256

Word(lo, hi) == hi * 256 + lo

\* conversion to uint16_t / uint8_t: reduction modulo 2^16 / 2^8
ToUint16(n) == n % 65536

ToUint8(n) == n % 256

\* conversion of a 16-bit pattern to int16_t (two's complement)
ToInt16(n) == IF n % 65536 >= 32768 THEN (n % 65536) - 65536 ELSE n % 65536

InInt16(n) == INT16_MIN <= n /\ n <= INT16_MAX

(***************************************************************************)
(* Characters on the serial line are bytes; the model writes a line as a   *)
(* sequence of one-character strings and sends their ASCII codes.          *)
(***************************************************************************)
Ascii(c) ==
    CASE c = "\n" -> 10
      [] c = " " -> 32
      [] c = "+" -> 43
      [] c = "-" -> 45
      [] c = "0" -> 48
      [] c = "1" -> 49
      [] c = "2" -> 50
      [] c = "3" -> 51
      [] c = "4" -> 52
      [] c = "5" -> 53
      [] c = "6" -> 54
      [] c = "7" -> 55
      [] c = "8" -> 56
      [] c = "9" -> 57
      [] c = "P" -> 80
      [] c = "S" -> 83
      [] c = "a" -> 97
      [] c = "p" -> 112
      [] c = "s" -> 115
      [] c = "x" -> 120

Bytes(text) == [k \in 1..Len(text) |-> Ascii(text[k])]

(***************************************************************************)
(* atoi() of avr-libc, as called on &m_received[1]: skips white space,     *)
(* takes an optional sign, accumulates decimal digits in a 16-bit register *)
(* without overflow detection (the result wraps modulo 2^16) and stops at  *)
(* the first byte that is not a digit.  No digits gives 0.                 *)
(***************************************************************************)
IsSpace(b) == b = 32 \/ (9 <= b /\ b <= 13)

IsDigit(b) == 48 <= b /\ b <= 57

RECURSIVE SkipSpace(_, _)
SkipSpace(s, k) ==
    IF k <= Len(s) /\ IsSpace(s[k]) THEN SkipSpace(s, k + 1) ELSE k

RECURSIVE AtoiDigits(_, _, _)
AtoiDigits(s, k, acc) ==
    IF k <= Len(s) /\ IsDigit(s[k])
    THEN AtoiDigits(s, k + 1, ToUint16(acc * 10 + (s[k] - 48)))
    ELSE acc

atoi(s) ==
    LET k == SkipSpace(s, 1)
        neg == k <= Len(s) /\ s[k] = 45
        first == IF k <= Len(s) /\ (s[k] = 45 \/ s[k] = 43) THEN k + 1 ELSE k
        mag == AtoiDigits(s, first, 0)
    IN  ToInt16(IF neg THEN 65536 - mag ELSE mag)

(***************************************************************************)
(* State.                                                                  *)
(***************************************************************************)
VARIABLES
    \* statics of main.c
    m_received,          \* char m_received[7], indexed 0..6
    m_rx_index,          \* uint8_t
    m_stepper_delay,     \* volatile uint16_t
    m_stepper_position,  \* volatile uint16_t
    \* USART receiver and status register
    UDR,                 \* the received byte waiting to be read
    rxc,                 \* RXC flag: a received byte waits, the interrupt is requested
    iflag,               \* global interrupt enable (cleared by cli, set by sei)
    \* main(): program counter and locals; stepper_rotate(): locals
    pc,
    tmp_lo,              \* low byte of a 16-bit load in progress
    delay,
    position,
    dif_position,
    previous_position,
    seq,
    count,
    i,
    PORTC,
    \* the sender
    wire,                \* bytes of the current line not yet received
    sent,                \* the lines transmitted so far, the current one last
    \* history
    behind,              \* the layout behind m_received, once a store met it
    stored_outside,      \* a store through m_received[k] with k >= 7 has happened
    delay_hist,          \* values m_stepper_delay held between handler runs
    pos_hist,            \* values m_stepper_position held between handler runs
    cw_cycles,           \* complete clockwise cycles of the current loop iteration
    ccw_cycles,          \* complete counter-clockwise cycles of the current iteration
    writes,              \* coil writes of the current loop iteration
    delay_calls,         \* _delay_us(10) invocations since the last coil write
    cycle,               \* the coil writes since startup, in groups of SEQ_SIZE:
                         \* the group in progress, or the last complete one
    net                  \* clockwise minus counter-clockwise cycles since startup

statics == <<m_received, m_rx_index, m_stepper_delay, m_stepper_position>>

usart == <<UDR, rxc>>

locals == <<pc, tmp_lo, delay, position, dif_position, previous_position,
            seq, count, i, PORTC>>

sender == <<wire, sent>>

counters == <<cw_cycles, ccw_cycles, writes, delay_calls, cycle, net>>

history == <<behind, stored_outside, delay_hist, pos_hist>>

vars == <<statics, usart, iflag, locals, sender, history, counters>>

(***************************************************************************)
(* ISR(USART_RXC_vect), lines 26-50, as a function of the statics.         *)
(*                                                                         *)
(* mem is [buf, idx, delay, pos, out]: the four statics and the history    *)
(* flag of a store outside the array.  m_rx_index is never checked against *)
(* the array size, so m_received[k] with k >= 7 is an out-of-bounds store: *)
(* undefined behaviour.  The byte lands in whatever the linker placed      *)
(* behind the array: the other statics in some order (16-bit variables low *)
(* byte first), or memory that holds no variable of the program.  A layout *)
(* lists what lies at m_received + 7, + 8, ...; all behind it is free.     *)
(***************************************************************************)
Layouts ==
    { <<>>,
      <<"m_rx_index", "delay_lo", "delay_hi", "pos_lo", "pos_hi">>,
      <<"m_rx_index", "pos_lo", "pos_hi", "delay_lo", "delay_hi">>,
      <<"delay_lo", "delay_hi", "m_rx_index", "pos_lo", "pos_hi">>,
      <<"delay_lo", "delay_hi", "pos_lo", "pos_hi", "m_rx_index">>,
      <<"pos_lo", "pos_hi", "m_rx_index", "delay_lo", "delay_hi">>,
      <<"pos_lo", "pos_hi", "delay_lo", "delay_hi", "m_rx_index">> }

Landing(lay, k) ==
    IF k - RECEIVED_SIZE < Len(lay) THEN lay[k - RECEIVED_SIZE + 1] ELSE "free"

\* m_received[k] = v
Store(mem, k, v, lay) ==
    IF k < RECEIVED_SIZE
    THEN [mem EXCEPT !.buf[k] = v]
    ELSE LET m == [mem EXCEPT !.out = TRUE]
             land == Landing(lay, k)
         IN  CASE land = "m_rx_index" -> [m EXCEPT !.idx = v]
               [] land = "delay_lo" -> [m EXCEPT !.delay = Word(v, Hi(@))]
               [] land = "delay_hi" -> [m EXCEPT !.delay = Word(Lo(@), v)]
               [] land = "pos_lo" -> [m EXCEPT !.pos = Word(v, Hi(@))]
               [] land = "pos_hi" -> [m EXCEPT !.pos = Word(Lo(@), v)]
               [] OTHER -> m

(***************************************************************************)
(* The C string at &m_received[1]: the bytes up to the first '\0'.  When   *)
(* the array holds no '\0' behind index 0 the terminator was stored        *)
(* outside the array and atoi reads on behind it: `tail` is what it finds  *)
(* there before the first '\0'.                                            *)
(***************************************************************************)
\* what atoi may find behind the array: nothing when the terminator went to
\* m_received[7], else bytes the model does not track (a digit or none)
Tails(k) ==
    IF k <= RECEIVED_SIZE THEN {<<>>} ELSE {<<>>, <<48>>, <<57>>}

CString(buf, tail) ==
    LET nul == {k \in 1..(RECEIVED_SIZE - 1) : buf[k] = 0}
        end == IF nul = {} THEN RECEIVED_SIZE
               ELSE CHOOSE k \in nul : \A j \in nul : k <= j
        inside == [k \in 1..(end - 1) |-> buf[k]]
    IN  IF nul = {} THEN inside \o tail ELSE inside

\* Mutant of SpeedCommand: every value from INT16_MAX upwards is rejected.
SpeedCommand_RejectsFromMax(mem, tail) ==
    LET parsed == ToUint16(atoi(CString(mem.buf, tail)))
    IN  [mem EXCEPT !.delay = IF parsed >= INT16_MAX THEN 0 ELSE parsed]

\* lines 34-38: 's' command.  m_stepper_delay is unsigned, so the comparison
\* with INT16_MIN converts INT16_MIN to unsigned int: 32768.
SpeedCommand(mem, tail) ==
    LET parsed == ToUint16(atoi(CString(mem.buf, tail)))
    IN  [mem EXCEPT !.delay = IF parsed = INT16_MAX \/ parsed = ToUint16(INT16_MIN)
                              THEN 0
                              ELSE parsed]

\* Mutant of PositionCommand: the sentinel check of the speed command is
\* applied to the position too.
PositionCommand_RejectsSentinels(mem, tail) ==
    LET parsed == ToUint16(atoi(CString(mem.buf, tail)))
    IN  [mem EXCEPT !.pos = IF parsed = INT16_MAX \/ parsed = ToUint16(INT16_MIN)
                            THEN 0
                            ELSE parsed]

\* line 42: 'p' command
PositionCommand(mem, tail) ==
    [mem EXCEPT !.pos = ToUint16(atoi(CString(mem.buf, tail)))]

\* Mutant of EndOfLine: the cursor is reset only when the line was a command.
EndOfLine_ResetsOnCommand(mem, lay, tail) ==
    LET m == Store(mem, mem.idx, 0, lay)
    IN  IF m.buf[0] = Ascii("s") THEN [SpeedCommand(m, tail) EXCEPT !.idx = 0]
        ELSE IF m.buf[0] = Ascii("p") THEN [PositionCommand(m, tail) EXCEPT !.idx = 0]
        ELSE m

\* lines 31-44: a newline was received
EndOfLine(mem, lay, tail) ==
    LET m == Store(mem, mem.idx, 0, lay)
        cmd == IF m.buf[0] = Ascii("s") THEN SpeedCommand(m, tail)
               ELSE IF m.buf[0] = Ascii("p") THEN PositionCommand(m, tail)
               ELSE m
    IN  [cmd EXCEPT !.idx = 0]

\* line 48: m_received[m_rx_index++] = byte; the incremented index is stored
\* first, the byte last
DataByte(mem, byte, lay) ==
    Store([mem EXCEPT !.idx = ToUint8(@ + 1)], mem.idx, byte, lay)

Handler(mem, byte, lay, tail) ==
    IF byte = Ascii("\n") THEN EndOfLine(mem, lay, tail)
    ELSE DataByte(mem, byte, lay)

\* the layouts a handler run can meet: the one earlier out-of-bounds stores
\* met, any when this run is the first to store or read behind the array
Behind(k) ==
    IF behind # <<"unknown">> THEN {behind}
    ELSE IF k >= RECEIVED_SIZE THEN Layouts
    ELSE {behind}

\* the interrupt: taken when a byte waits and interrupts are enabled
USART_RXC ==
    /\ rxc
    /\ iflag
    /\ \E lay \in Behind(m_rx_index), tail \in Tails(m_rx_index) :
         LET mem == [buf |-> m_received, idx |-> m_rx_index,
                     delay |-> m_stepper_delay, pos |-> m_stepper_position,
                     out |-> stored_outside]
             new == Handler(mem, UDR, lay, tail)
         IN  /\ m_received' = new.buf
             /\ m_rx_index' = new.idx
             /\ m_stepper_delay' = new.delay
             /\ m_stepper_position' = new.pos
             /\ stored_outside' = new.out
             /\ behind' = lay
             /\ delay_hist' = delay_hist \cup {new.delay}
             /\ pos_hist' = pos_hist \cup {new.pos}
    /\ rxc' = FALSE
    /\ UNCHANGED <<UDR, iflag, locals, sender, counters>>

(***************************************************************************)
(* The sender and the USART receiver.                                      *)
(***************************************************************************)
\* the sender starts to transmit one of `lines`, followed by a newline
SendLine(lines, max) ==
    /\ wire = <<>>
    /\ Len(sent) < max
    /\ \E text \in lines :
         /\ wire' = Bytes(text) \o <<Ascii("\n")>>
         /\ sent' = Append(sent, text)
    /\ UNCHANGED <<statics, usart, iflag, locals, history, counters>>

\* the receiver has shifted in a byte: UDR holds it, RXC is set (line 28
\* reads it, the hardware clears RXC on that read)
RxComplete ==
    /\ wire # <<>>
    /\ ~rxc
    /\ UDR' = Head(wire)
    /\ rxc' = TRUE
    /\ wire' = Tail(wire)
    /\ UNCHANGED <<statics, iflag, locals, sent, history, counters>>

(***************************************************************************)
(* main(), lines 106-131, and stepper_rotate(), lines 80-92.               *)
(*                                                                         *)
(* The AVR loads a 16-bit variable with two 8-bit loads, low byte first,   *)
(* so each of lines 113 and 114 is two steps.                              *)
(***************************************************************************)
\* Mutant of Cli: the loop waits for a received byte before it takes the
\* next copy of the shared values.
Cli_WaitsForByte ==
    /\ pc = "cli"
    /\ rxc
    /\ iflag' = FALSE
    /\ pc' = "load_delay_lo"
    /\ cw_cycles' = 0
    /\ ccw_cycles' = 0
    /\ writes' = 0
    /\ delay_calls' = 0
    /\ UNCHANGED <<statics, usart, sender, history, tmp_lo, delay, position,
                   dif_position, previous_position, seq, count, i, PORTC, cycle,
                   net>>

\* Mutant of Cli: the loop iteration starts without masking the interrupt.
Cli_NoMask ==
    /\ pc = "cli"
    /\ pc' = "load_delay_lo"
    /\ cw_cycles' = 0
    /\ ccw_cycles' = 0
    /\ writes' = 0
    /\ delay_calls' = 0
    /\ UNCHANGED <<statics, usart, iflag, sender, history, tmp_lo, delay, position,
                   dif_position, previous_position, seq, count, i, PORTC, cycle,
                   net>>

\* line 112: cli(); a new loop iteration starts
Cli ==
    /\ pc = "cli"
    /\ iflag' = FALSE
    /\ pc' = "load_delay_lo"
    /\ cw_cycles' = 0
    /\ ccw_cycles' = 0
    /\ writes' = 0
    /\ delay_calls' = 0
    /\ UNCHANGED <<statics, usart, sender, history, tmp_lo, delay, position,
                   dif_position, previous_position, seq, count, i, PORTC, cycle,
                   net>>

\* line 113, first load
LoadDelayLo ==
    /\ pc = "load_delay_lo"
    /\ tmp_lo' = Lo(m_stepper_delay)
    /\ pc' = "load_delay_hi"
    /\ UNCHANGED <<statics, usart, iflag, sender, history, counters, delay,
                   position, dif_position, previous_position, seq, count, i, PORTC>>

\* Mutant of LoadDelayHi: sei() follows the copy of the delay at once, so
\* only the first of the two copies is protected.
LoadDelayHi_ThenSei ==
    /\ pc = "load_delay_hi"
    /\ delay' = Word(tmp_lo, Hi(m_stepper_delay))
    /\ iflag' = TRUE
    /\ pc' = "load_position_lo"
    /\ UNCHANGED <<statics, usart, sender, history, counters, tmp_lo,
                   position, dif_position, previous_position, seq, count, i, PORTC>>

\* line 113, second load
LoadDelayHi ==
    /\ pc = "load_delay_hi"
    /\ delay' = Word(tmp_lo, Hi(m_stepper_delay))
    /\ pc' = "load_position_lo"
    /\ UNCHANGED <<statics, usart, iflag, sender, history, counters, tmp_lo,
                   position, dif_position, previous_position, seq, count, i, PORTC>>

\* line 114, first load
LoadPositionLo ==
    /\ pc = "load_position_lo"
    /\ tmp_lo' = Lo(m_stepper_position)
    /\ pc' = "load_position_hi"
    /\ UNCHANGED <<statics, usart, iflag, sender, history, counters, delay,
                   position, dif_position, previous_position, seq, count, i, PORTC>>

\* Mutant of LoadPositionHi: the loop keeps the target of its last iteration.
LoadPositionHi_KeepsTarget ==
    /\ pc = "load_position_hi"
    /\ pc' = "subtract"
    /\ UNCHANGED <<statics, usart, iflag, sender, history, counters, tmp_lo,
                   delay, position, dif_position, previous_position, seq, count,
                   i, PORTC>>

\* line 114, second load and the conversion to int16_t
LoadPositionHi ==
    /\ pc = "load_position_hi"
    /\ position' = ToInt16(Word(tmp_lo, Hi(m_stepper_position)))
    /\ pc' = "subtract"
    /\ UNCHANGED <<statics, usart, iflag, sender, history, counters, tmp_lo,
                   delay, dif_position, previous_position, seq, count, i, PORTC>>

(***************************************************************************)
(* Line 115: position - previous_position is computed in int, which is 16  *)
(* bits wide here.  A difference outside -32768..32767 is a signed         *)
(* overflow, undefined behaviour: the subtract instructions leave the      *)
(* difference reduced modulo 2^16, or the compiler, which may assume that  *)
(* no overflow happens, lets the comparisons of lines 119 and 123 see the  *)
(* mathematical difference.  Both outcomes leave the same 16 bits for the  *)
(* conversion to uint16_t of lines 121 and 126.                            *)
(***************************************************************************)
SignedSub(a, b) ==
    IF InInt16(a - b) THEN {a - b} ELSE {ToInt16(a - b), a - b}

\* Mutant of Subtract: the target itself is taken for the difference.
Subtract_NoPrevious ==
    /\ pc = "subtract"
    /\ dif_position' = position
    /\ pc' = "sei"
    /\ UNCHANGED <<statics, usart, iflag, sender, history, counters, tmp_lo,
                   delay, position, previous_position, seq, count, i, PORTC>>

Subtract ==
    /\ pc = "subtract"
    /\ dif_position' \in SignedSub(position, previous_position)
    /\ pc' = "sei"
    /\ UNCHANGED <<statics, usart, iflag, sender, history, counters, tmp_lo,
                   delay, position, previous_position, seq, count, i, PORTC>>

\* Mutant of Sei: the interrupts are not enabled again before the rotation.
Sei_Skipped ==
    /\ pc = "sei"
    /\ pc' = "branch"
    /\ UNCHANGED <<statics, usart, iflag, sender, history, counters, tmp_lo, delay,
                   position, dif_position, previous_position, seq, count, i, PORTC>>

\* line 116: sei()
Sei ==
    /\ pc = "sei"
    /\ iflag' = TRUE
    /\ pc' = "branch"
    /\ UNCHANGED <<statics, usart, sender, history, counters, tmp_lo, delay,
                   position, dif_position, previous_position, seq, count, i, PORTC>>

\* Mutant of Negate: the difference keeps its sign.
Negate_Identity(d) == d

\* line 125: dif_position = -dif_position; -(-32768) does not fit and wraps
Negate(d) == IF d = INT16_MIN THEN INT16_MIN ELSE 0 - d

\* lines 119-127: the direction, and the call of stepper_rotate (line 82)
Branch ==
    /\ pc = "branch"
    /\ IF dif_position > 0
       THEN /\ seq' = "cw"
            /\ dif_position' = dif_position
            /\ pc' = "while"
       ELSE IF dif_position < 0
       THEN /\ seq' = "ccw"
            /\ dif_position' = Negate(dif_position)
            /\ pc' = "while"
       ELSE /\ seq' = seq
            /\ dif_position' = dif_position
            /\ pc' = "save"
    /\ count' = IF dif_position = 0 THEN count ELSE 0
    /\ UNCHANGED <<statics, usart, iflag, sender, history, counters, tmp_lo,
                   delay, position, previous_position, i, PORTC>>

\* line 83: while (count < dif_position), dif_position the uint16_t parameter
WhileTest ==
    /\ pc = "while"
    /\ IF count < ToUint16(dif_position)
       THEN /\ i' = 0
            /\ pc' = "write"
       ELSE /\ i' = i
            /\ pc' = "save"
    /\ UNCHANGED <<statics, usart, iflag, sender, history, counters, tmp_lo,
                   delay, position, dif_position, previous_position, seq, count,
                   PORTC>>

Table(s) == IF s = "cw" THEN seq_cw ELSE seq_ccw

\* Mutant of CoilWrite: the entry after seq[i] is written, so every cycle
\* starts at the second entry of its table.
CoilWrite_NextEntry ==
    /\ pc = "write"
    /\ PORTC' = Table(seq)[((i + 1) % SEQ_SIZE) + 1]
    /\ writes' = writes + 1
    /\ delay_calls' = 0
    /\ cycle' = IF Len(cycle) = SEQ_SIZE THEN <<PORTC'>> ELSE Append(cycle, PORTC')
    /\ pc' = "hold"
    /\ UNCHANGED <<statics, usart, iflag, sender, history, cw_cycles, ccw_cycles,
                   net, tmp_lo, delay, position, dif_position, previous_position,
                   seq, count, i>>

\* line 87: PORTC = seq[i]
CoilWrite ==
    /\ pc = "write"
    /\ PORTC' = Table(seq)[i + 1]
    /\ writes' = writes + 1
    /\ delay_calls' = 0
    /\ cycle' = IF Len(cycle) = SEQ_SIZE THEN <<PORTC'>> ELSE Append(cycle, PORTC')
    /\ pc' = "hold"
    /\ UNCHANGED <<statics, usart, iflag, sender, history, cw_cycles, ccw_cycles,
                   net, tmp_lo, delay, position, dif_position, previous_position,
                   seq, count, i>>

\* lines 67-73: my_delay_us(us), the number of _delay_us(10) calls it makes.
\* while (us--) tests us = us, us - 1, ..., 0 in turn and runs the body once
\* for each value that is not 0.
my_delay_us(us) == Cardinality({u \in 0..us : u # 0})

\* Mutant of Hold: the hold is read from the shared delay at every coil step
\* instead of from the copy passed to stepper_rotate.
Hold_SharedDelay ==
    /\ pc = "hold"
    /\ delay_calls' = my_delay_us(m_stepper_delay)
    /\ IF i + 1 < SEQ_SIZE
       THEN /\ i' = i + 1
            /\ count' = count
            /\ cw_cycles' = cw_cycles
            /\ ccw_cycles' = ccw_cycles
            /\ net' = net
            /\ pc' = "write"
       ELSE /\ i' = i + 1
            /\ count' = ToUint16(count + 1)
            /\ cw_cycles' = IF seq = "cw" THEN cw_cycles + 1 ELSE cw_cycles
            /\ ccw_cycles' = IF seq = "ccw" THEN ccw_cycles + 1 ELSE ccw_cycles
            /\ net' = IF seq = "cw" THEN net + 1 ELSE net - 1
            /\ pc' = "while"
    /\ UNCHANGED <<statics, usart, iflag, sender, history, writes, cycle, tmp_lo,
                   delay, position, dif_position, previous_position, seq, PORTC>>

\* lines 88-90: the hold, the end of the for loop body and, after the last
\* entry, count++
Hold ==
    /\ pc = "hold"
    /\ delay_calls' = my_delay_us(delay)
    /\ IF i + 1 < SEQ_SIZE
       THEN /\ i' = i + 1
            /\ count' = count
            /\ cw_cycles' = cw_cycles
            /\ ccw_cycles' = ccw_cycles
            /\ net' = net
            /\ pc' = "write"
       ELSE /\ i' = i + 1
            /\ count' = ToUint16(count + 1)
            /\ cw_cycles' = IF seq = "cw" THEN cw_cycles + 1 ELSE cw_cycles
            /\ ccw_cycles' = IF seq = "ccw" THEN ccw_cycles + 1 ELSE ccw_cycles
            /\ net' = IF seq = "cw" THEN net + 1 ELSE net - 1
            /\ pc' = "while"
    /\ UNCHANGED <<statics, usart, iflag, sender, history, writes, cycle, tmp_lo,
                   delay, position, dif_position, previous_position, seq, PORTC>>

\* Mutant of Save: the previous position is advanced by dif_position, which
\* line 125 has made positive for a counter-clockwise rotation.
Save_AddsDifference ==
    /\ pc = "save"
    /\ previous_position' = ToInt16(previous_position + dif_position)
    /\ pc' = "cli"
    /\ UNCHANGED <<statics, usart, iflag, sender, history, counters, tmp_lo,
                   delay, position, dif_position, seq, count, i, PORTC>>

\* line 130: previous_position = position
Save ==
    /\ pc = "save"
    /\ previous_position' = position
    /\ pc' = "cli"
    /\ UNCHANGED <<statics, usart, iflag, sender, history, counters, tmp_lo,
                   delay, position, dif_position, seq, count, i, PORTC>>

(***************************************************************************)
(* The whole system: the state at the entry of the loop of main() (the     *)
(* statics are zero-initialised, interrupts are still disabled after       *)
(* reset), and a sender that transmits up to MaxLines lines of Lines.      *)
(***************************************************************************)
Lines ==
    { <<"s", "1">>, <<"s", "2", "5", "6">>,
      <<"p", "1">>, <<"p", "6", "5", "5", "3", "5">>,
      <<"p", "1", "0", "0">>, <<"x">> }

Init ==
    /\ m_received = [k \in 0..(RECEIVED_SIZE - 1) |-> 0]
    /\ m_rx_index = 0
    /\ m_stepper_delay = 0
    /\ m_stepper_position = 0
    /\ UDR = 0
    /\ rxc = FALSE
    /\ iflag = FALSE
    /\ pc = "cli"
    /\ tmp_lo = 0
    /\ delay = 0
    /\ position = 0
    /\ dif_position = 0
    /\ previous_position = 0
    /\ seq = "cw"
    /\ count = 0
    /\ i = 0
    /\ PORTC = 0
    /\ wire = <<>>
    /\ sent = <<>>
    /\ behind = <<"unknown">>
    /\ stored_outside = FALSE
    /\ delay_hist = {0}
    /\ pos_hist = {0}
    /\ cw_cycles = 0
    /\ ccw_cycles = 0
    /\ writes = 0
    /\ delay_calls = 0
    /\ cycle = <<>>
    /\ net = 0

Next ==
    \/ SendLine(Lines, MaxLines)
    \/ RxComplete
    \/ USART_RXC
    \/ Cli
    \/ LoadDelayLo
    \/ LoadDelayHi
    \/ LoadPositionLo
    \/ LoadPositionHi
    \/ Subtract
    \/ Sei
    \/ Branch
    \/ WhileTest
    \/ CoilWrite
    \/ Hold
    \/ Save

Spec == Init /\ [][Next]_vars

(***************************************************************************)
(* Decimal numerals, as a sender writes the <N> of s<N> and p<N>.          *)
(***************************************************************************)
Digit(d) == <<"0", "1", "2", "3", "4", "5", "6", "7", "8", "9">>[d + 1]

RECURSIVE Decimal(_)
Decimal(n) ==
    IF n < 10 THEN <<Digit(n)>> ELSE Decimal(n \div 10) \o <<Digit(n % 10)>>

Numeral(n) == IF n < 0 THEN <<"-">> \o Decimal(0 - n) ELSE Decimal(n)

\* the last line sent has been received and handled completely
Processed == sent # <<>> /\ wire = <<>> /\ ~rxc

LastLine == sent[Len(sent)]

(***************************************************************************)
(* The interpreter alone: the foreground rests behind its first sei() (no  *)
(* byte was received before it, so it found delay 0 and position 0) while  *)
(* the sender transmits up to MaxParseLines lines of ParseLines.           *)
(***************************************************************************)
\* <N> of the s and p lines: values inside the signed 16-bit range, its two
\* ends (32768 is what -32768 reads as when taken as unsigned), values
\* outside it
Numbers ==
    { 0, 7, 32766, -1, -10000, -32767,
      32767, -32768, 32768,
      40000, 99999 }

\* further <N> of p lines; the largest still give a line of 7 characters
LongNumbers == { 65535, 100000, -99999 }

\* lines whose remainder is no number, lines that are no command, and lines
\* of 7 and 8 characters
RawLines ==
    { <<"s">>, <<"s", "a", "x">>, <<"s", "-">>, <<"s", " ", "4">>,
      <<"p">>, <<>>, <<"x">>, <<"S", "5">>, <<"P", "5">>,
      <<"x", "x", "x", "x", "x", "x", "x">>,
      <<"p", "1", "0", "0", "0", "0", "0", "0">> }

ParseLines ==
    {<<"s">> \o Numeral(n) : n \in Numbers}
        \cup {<<"p">> \o Numeral(n) : n \in Numbers \cup LongNumbers}
        \cup RawLines

InitParse ==
    /\ m_received = [k \in 0..(RECEIVED_SIZE - 1) |-> 0]
    /\ m_rx_index = 0
    /\ m_stepper_delay = 0
    /\ m_stepper_position = 0
    /\ UDR = 0
    /\ rxc = FALSE
    /\ iflag = TRUE
    /\ pc = "branch"
    /\ tmp_lo = 0
    /\ delay = 0
    /\ position = 0
    /\ dif_position = 0
    /\ previous_position = 0
    /\ seq = "cw"
    /\ count = 0
    /\ i = 0
    /\ PORTC = 0
    /\ wire = <<>>
    /\ sent = <<>>
    /\ behind = <<"unknown">>
    /\ stored_outside = FALSE
    /\ delay_hist = {0}
    /\ pos_hist = {0}
    /\ cw_cycles = 0
    /\ ccw_cycles = 0
    /\ writes = 0
    /\ delay_calls = 0
    /\ cycle = <<>>
    /\ net = 0

NextParse ==
    \/ SendLine(ParseLines, MaxParseLines)
    \/ RxComplete
    \/ USART_RXC

SpecParse == InitParse /\ [][NextParse]_vars

(***************************************************************************)
(* The loop of main() alone, for large position differences: no byte       *)
(* arrives any more.  Each initial state is the state the program is in    *)
(* when the lines s<speed>, p<prev> and p<target> have been handled, the   *)
(* loop has brought the motor to prev, and the loop is about to snapshot   *)
(* target.  (A negative position is sent as its unsigned 16-bit value.)    *)
(***************************************************************************)
IterCases ==
    { [prev |-> 0, target |-> 0, speed |-> 0],
      [prev |-> 0, target |-> 3, speed |-> 0],
      [prev |-> 3, target |-> 0, speed |-> 2],
      [prev |-> -2, target |-> 2, speed |-> 1],
      [prev |-> 2, target |-> -2, speed |-> 0],
      [prev |-> 100, target |-> 100, speed |-> 0],
      [prev |-> 32766, target |-> 32767, speed |-> 0],
      [prev |-> -32767, target |-> -32768, speed |-> 0],
      [prev |-> -32768, target |-> 32767, speed |-> 0],
      [prev |-> 32767, target |-> -32768, speed |-> 0] }

\* the handler run on every byte of a line that fits the array
RECURSIVE Feed(_, _)
Feed(mem, bytes) ==
    IF bytes = <<>> THEN mem
    ELSE Feed(Handler(mem, Head(bytes), <<>>, <<>>), Tail(bytes))

IterLines(c) ==
    << <<"s">> \o Numeral(c.speed),
       <<"p">> \o Numeral(ToUint16(c.prev)),
       <<"p">> \o Numeral(ToUint16(c.target)) >>

IterStatics(c) ==
    LET zero == [buf |-> [k \in 0..(RECEIVED_SIZE - 1) |-> 0], idx |-> 0,
                 delay |-> 0, pos |-> 0, out |-> FALSE]
        nl == <<Ascii("\n")>>
        lines == IterLines(c)
    IN  Feed(Feed(Feed(zero, Bytes(lines[1]) \o nl), Bytes(lines[2]) \o nl),
             Bytes(lines[3]) \o nl)

InitIter ==
    \E c \in IterCases :
        LET mem == IterStatics(c)
        IN  /\ m_received = mem.buf
            /\ m_rx_index = mem.idx
            /\ m_stepper_delay = mem.delay
            /\ m_stepper_position = mem.pos
            /\ UDR = Ascii("\n")
            /\ rxc = FALSE
            /\ iflag = TRUE
            /\ pc = "cli"
            /\ tmp_lo = Hi(ToUint16(c.prev))
            /\ delay = c.speed
            /\ position = c.prev
            /\ dif_position = 0
            /\ previous_position = c.prev
            /\ seq = IF c.prev < 0 THEN "ccw" ELSE "cw"
            /\ count = IF c.prev < 0 THEN 0 - c.prev ELSE c.prev
            /\ i = IF c.prev = 0 THEN 0 ELSE SEQ_SIZE
            /\ PORTC = IF c.prev = 0 THEN 0 ELSE Table(seq)[SEQ_SIZE]
            /\ wire = <<>>
            /\ sent = IterLines(c)
            /\ behind = <<"unknown">>
            /\ stored_outside = FALSE
            /\ delay_hist = {0, c.speed}
            /\ pos_hist = {0, ToUint16(c.prev), ToUint16(c.target)}
            /\ cw_cycles = 0
            /\ ccw_cycles = 0
            /\ writes = 0
            /\ delay_calls = 0
            /\ cycle = IF c.prev = 0 THEN <<>> ELSE Table(seq)
            /\ net = c.prev

NextIter ==
    \/ Cli
    \/ LoadDelayLo
    \/ LoadDelayHi
    \/ LoadPositionLo
    \/ LoadPositionHi
    \/ Subtract
    \/ Sei
    \/ Branch
    \/ WhileTest
    \/ CoilWrite
    \/ Hold
    \/ Save

SpecIter == InitIter /\ [][NextIter]_vars

(***************************************************************************)
(* The whole system with lines of every kind, those that overflow          *)
(* m_received included, and a foreground that keeps running: main() is the *)
(* only code outside the handler, the handler returns after a bounded      *)
(* number of instructions, and at 4800 baud a byte takes about 2 ms, so    *)
(* the processor always comes back to the loop.  Nothing is assumed of the *)
(* sender.                                                                 *)
(***************************************************************************)
FairLines ==
    { <<"s", "1">>, <<"s", "3", "2", "7", "6", "9">>,
      <<"p", "2">>, <<"p", "6", "5", "5", "3", "5">>,
      <<"x">>, <<"x", "x", "x", "x", "x", "x", "x">> }

NextFair ==
    \/ SendLine(FairLines, MaxFairLines)
    \/ RxComplete
    \/ USART_RXC
    \/ Cli
    \/ LoadDelayLo
    \/ LoadDelayHi
    \/ LoadPositionLo
    \/ LoadPositionHi
    \/ Subtract
    \/ Sei
    \/ Branch
    \/ WhileTest
    \/ CoilWrite
    \/ Hold
    \/ Save

SpecFair == Init /\ [][NextFair]_vars /\ WF_vars(NextIter)

(***************************************************************************)
(* The whole system from startup with a sender that transmits s5, then     *)
(* p20, and, once the loop has saved 20 as the previous position, p15.     *)
(***************************************************************************)
Scenario == << <<"s", "5">>, <<"p", "2", "0">>, <<"p", "1", "5">> >>

SendScenario ==
    /\ Len(sent) + 1 = Len(Scenario) => previous_position = 20
    /\ SendLine({Scenario[Len(sent) + 1]}, Len(Scenario))

NextScenario ==
    \/ SendScenario
    \/ RxComplete
    \/ USART_RXC
    \/ Cli
    \/ LoadDelayLo
    \/ LoadDelayHi
    \/ LoadPositionLo
    \/ LoadPositionHi
    \/ Subtract
    \/ Sei
    \/ Branch
    \/ WhileTest
    \/ CoilWrite
    \/ Hold
    \/ Save

SpecScenario == Init /\ [][NextScenario]_vars

(***************************************************************************)
(* Properties.                                                             *)
(***************************************************************************)

\* C1: every value the loop holds in delay and in position is a value the
\* shared variable held in full between two handler runs (0 at the start): no
\* snapshot combines the low byte of one stored value with the high byte of
\* another.
C1_SnapshotFieldsStoredInFull ==
    /\ delay \in delay_hist
    /\ ToUint16(position) \in pos_hist

\* C1, witness: the newline of a line arrived while the loop copied the
\* shared values (it waits for sei()), and the copied position, -1, has a
\* high byte that differs from that of the value stored before it.
C1_Witness ==
    /\ pc = "sei"
    /\ rxc
    /\ UDR = Ascii("\n")
    /\ position = -1

\* C2: from cli() to sei() interrupts are disabled, so the handler does not
\* run between the copies, and when both copies are made the pair (delay,
\* position) is the shared pair as it stands at that instant.
C2_SnapshotIsOneInstant ==
    /\ pc \in {"load_delay_lo", "load_delay_hi", "load_position_lo",
               "load_position_hi", "subtract", "sei"} => ~iflag
    /\ pc \in {"subtract", "sei"} =>
           /\ delay = m_stepper_delay
           /\ ToUint16(position) = m_stepper_position

\* C2, witness: the newline of a position line waits while the snapshot is
\* complete; both copied fields are those before that line.
C2_Witness ==
    /\ pc = "sei"
    /\ rxc
    /\ UDR = Ascii("\n")
    /\ m_rx_index > 0
    /\ m_received[0] = Ascii("p")
    /\ delay = 1
    /\ position = 0

\* C3: when a loop iteration with target above the previous position reaches
\* line 130, it has emitted exactly (position - previous_position) clockwise
\* cycles of 8 coil writes, and no other coil write.
C3_ClockwiseCycles ==
    (pc = "save" /\ position > previous_position) =>
        /\ cw_cycles = position - previous_position
        /\ writes = SEQ_SIZE * cw_cycles
        /\ ccw_cycles = 0

\* C4: when a loop iteration with target below the previous position reaches
\* line 130, it has emitted exactly (previous_position - position)
\* counter-clockwise cycles of 8 coil writes, and no clockwise cycle.
C4_CounterClockwiseCycles ==
    (pc = "save" /\ position < previous_position) =>
        /\ ccw_cycles = previous_position - position
        /\ writes = SEQ_SIZE * ccw_cycles
        /\ cw_cycles = 0

\* the <N> of the claims about s<N>: inside the signed 16-bit range, not an end
InsideNumbers == {n \in Numbers : INT16_MIN < n /\ n < INT16_MAX}

\* C5, as stated: after the line s<N>, N inside the signed 16-bit range and
\* not one of its ends, the shared delay is N.
C5_DelayIsExactlyN ==
    \A n \in InsideNumbers :
        (Processed /\ LastLine = <<"s">> \o Numeral(n)) => m_stepper_delay = n

\* C5, amended: after the line s<N>, N inside the signed 16-bit range and not
\* one of its ends, the shared delay is N modulo 2^16: N when N >= 0, and
\* N + 65536 when N < 0.
C5_DelayIsNModulo65536 ==
    \A n \in InsideNumbers :
        (Processed /\ LastLine = <<"s">> \o Numeral(n)) =>
            m_stepper_delay = IF n >= 0 THEN n ELSE n + 65536

\* C5, witness: s-10000 has been handled (its terminator went to
\* m_received[7]) and the delay is 55536.
C5_Witness ==
    /\ Processed
    /\ LastLine = <<"s", "-", "1", "0", "0", "0", "0">>
    /\ m_stepper_delay = 55536

\* C6: after an s line whose value is an end of the signed 16-bit range or
\* lies outside that range, or whose remainder is not a number, the shared
\* delay is 0.
C6_RejectedSpeedIsZero ==
    Processed =>
        /\ \A n \in Numbers \ InsideNumbers :
               LastLine = <<"s">> \o Numeral(n) => m_stepper_delay = 0
        /\ LastLine \in {<<"s">>, <<"s", "a", "x">>, <<"s", "-">>} =>
               m_stepper_delay = 0

EndsOtherLine ==
    /\ rxc
    /\ iflag
    /\ UDR = Ascii("\n")
    /\ wire = <<>>
    /\ sent # <<>>
    /\ (LastLine = <<>> \/ LastLine[1] \notin {"s", "p"})

\* C8: the handler run on the newline of a line that starts with neither s
\* nor p leaves the shared delay and the shared position as they were.
C8_OtherLineChangesNothing ==
    [][(EndsOtherLine /\ ~rxc') =>
           /\ m_stepper_delay' = m_stepper_delay
           /\ m_stepper_position' = m_stepper_position]_vars

\* C9: the cursor never exceeds the capacity of m_received and no byte, data
\* or terminator, is stored outside the array.
C9_StoresStayInside ==
    /\ m_rx_index <= RECEIVED_SIZE
    /\ ~stored_outside

\* C10: a loop iteration whose target equals the previous position calls
\* stepper_rotate not at all and reaches line 130 without a coil write.
C10_NoMotionWhenEqual ==
    (position = previous_position /\ pc \in {"while", "write", "hold", "save"}) =>
        /\ pc = "save"
        /\ writes = 0

\* C10, witness: p100 was sent twice, both lines are handled, the motor is at
\* 100 and an iteration ends without a coil write.
C10_Witness ==
    /\ sent = << <<"p", "1", "0", "0">>, <<"p", "1", "0", "0">> >>
    /\ Processed
    /\ pc = "save"
    /\ position = 100
    /\ previous_position = 100
    /\ writes = 0

\* C11: the coil writes since startup, taken in groups of 8, are each the
\* clockwise table or the counter-clockwise table in table order (a group in
\* progress is the start of one of them); outside a rotation no group is
\* left unfinished; and a cycle counted for a direction is that direction's
\* table.  The sender may transmit any line meanwhile, also one that
\* overflows m_received.
C11_CyclesFollowOneTable ==
    LET cw == <<1, 3, 2, 6, 4, 12, 8, 9>>
        ccw == <<9, 8, 12, 4, 6, 2, 3, 1>>
    IN  /\ \E t \in {cw, ccw} : cycle = SubSeq(t, 1, Len(cycle))
        /\ pc \notin {"write", "hold"} => Len(cycle) \in {0, SEQ_SIZE}
        /\ pc = "hold" => PORTC = cycle[Len(cycle)]
        /\ (pc = "while" /\ count > 0) => cycle = (IF seq = "cw" THEN cw ELSE ccw)

\* C11, witness: a line of 7 characters, whose terminator is stored outside
\* m_received, was handled while a counter-clockwise cycle was half done.
C11_Witness ==
    /\ pc = "write"
    /\ cycle = <<9, 8, 12, 4>>
    /\ Processed
    /\ LastLine = <<"x", "x", "x", "x", "x", "x", "x">>
    /\ stored_outside

\* C12: between a coil write and the next one (or the end of the rotation)
\* _delay_us(10) has been invoked exactly `delay` times, `delay` being the
\* copy taken by this loop iteration between cli() and sei(): none when it
\* is 0, and whatever the shared delay has become meanwhile.
C12_HoldIsSnapshotDelay ==
    (pc \in {"write", "while"} /\ writes > 0) => delay_calls = delay

\* C12, witness: the rotation runs with the copied delay 0, the line s1 was
\* handled during the rotation, and the coil step just held made no call.
C12_Witness ==
    /\ pc = "write"
    /\ writes > 0
    /\ delay = 0
    /\ Processed
    /\ LastLine = <<"s", "1">>
    /\ m_stepper_delay = 1
    /\ delay_calls = 0

\* C13: with s5, p20 and, after the previous position has become 20, p15:
\* the previous position takes the values 0, 20 and 15 only; the loop
\* iteration that goes from 0 to 20 emits exactly 20 clockwise cycles (160
\* coil writes) and no counter-clockwise one, the iteration that goes from 20
\* to 15 exactly 5 counter-clockwise cycles (40 coil writes) and no
\* clockwise one; every coil step of both holds for 5 delay units; and at the
\* end of an iteration the cycles emitted since startup add up to the
\* previous position.
C13_Scenario ==
    /\ previous_position \in {0, 20, 15}
    /\ position \in {0, 20, 15}
    /\ cw_cycles <= 20
    /\ ccw_cycles <= 5
    /\ (pc = "save" /\ previous_position = 0 /\ position = 20) =>
           /\ cw_cycles = 20
           /\ ccw_cycles = 0
           /\ writes = 160
    /\ (pc = "save" /\ previous_position = 20 /\ position = 15) =>
           /\ ccw_cycles = 5
           /\ cw_cycles = 0
           /\ writes = 40
    /\ (pc = "save" /\ previous_position = position) => writes = 0
    /\ (pc \in {"write", "while"} /\ writes > 0) => (delay = 5 /\ delay_calls = 5)
    /\ pc = "cli" => net = previous_position

\* C13, witness: all three lines are handled, the iteration from 20 to 15 has
\* ended and the previous position is 15.
C13_Witness ==
    /\ Len(sent) = 3
    /\ Processed
    /\ pc = "cli"
    /\ previous_position = 15
    /\ ccw_cycles = 5
    /\ net = 15

\* C14: a rotation emits at most 8 * 65535 coil writes, and the loop reaches
\* cli() and sei(), the start and the end of a copy of the shared values,
\* again and again, whatever lines arrive (unrecognized and overflowing ones
\* included) and also when none arrives.
C14_LoopNeverHalts ==
    /\ [](writes <= SEQ_SIZE * 65535)
    /\ []<>(pc = "cli")
    /\ []<>(pc = "sei")

\* C14, witness: p2 and then a line that is no command and overflows
\* m_received were handled, and the rotation has ended: the loop is back at
\* cli().
C14_Witness ==
    /\ pc = "cli"
    /\ writes > 0
    /\ Processed
    /\ sent = << <<"p", "2">>, <<"x", "x", "x", "x", "x", "x", "x">> >>
    /\ stored_outside

\* the step is a run of the handler
HandlerRuns == rxc /\ iflag /\ ~rxc'

\* the line the byte in UDR belongs to: the last line sent, or the one before
\* it when the sender has started the next line while a newline still waits
UdrLine ==
    IF wire = <<>> \/ UDR # Ascii("\n") THEN LastLine ELSE sent[Len(sent) - 1]

\* C15: a handler run on the newline of a line that starts with s leaves the
\* shared position as it was, a run on the newline of a line that starts
\* with p leaves the shared delay as it was, and a run on a byte other than
\* a newline, of a line of fewer than 7 characters, leaves both as they were.
C15_OneFieldPerInvocation ==
    [][HandlerRuns =>
           /\ (UDR = Ascii("\n") /\ UdrLine # <<>> /\ UdrLine[1] = "s") =>
                  m_stepper_position' = m_stepper_position
           /\ (UDR = Ascii("\n") /\ UdrLine # <<>> /\ UdrLine[1] = "p") =>
                  m_stepper_delay' = m_stepper_delay
           /\ (UDR # Ascii("\n") /\ Len(UdrLine) < RECEIVED_SIZE) =>
                  /\ m_stepper_delay' = m_stepper_delay
                  /\ m_stepper_position' = m_stepper_position]_vars

\* C16: from the branch of line 119 to line 130, so during every coil write
\* and every hold, interrupts are enabled (a byte received meanwhile is
\* handled at once); they are disabled only from cli() to sei(), and before
\* the first cli() after reset, when no coil write has happened yet.
C16_RotationRunsUnmasked ==
    /\ pc \in {"branch", "while", "write", "hold", "save"} => iflag
    /\ ~iflag =>
           \/ pc \in {"load_delay_lo", "load_delay_hi", "load_position_lo",
                      "load_position_hi", "subtract", "sei"}
           \/ (pc = "cli" /\ cycle = <<>> /\ PORTC = 0)

\* C16, witness: the line p65535 was sent and handled while the rotation
\* towards position 2 was in progress.
C16_Witness ==
    /\ pc = "hold"
    /\ position = 2
    /\ writes > 0
    /\ writes < SEQ_SIZE
    /\ Processed
    /\ LastLine = <<"p", "6", "5", "5", "3", "5">>
    /\ m_stepper_position = 65535

\* C17: when every byte sent has been handled, the newline of the last line
\* included, the cursor is 0; and when the first byte of a line has been
\* handled it is in m_received[0] and the cursor is 1, whatever the lines
\* before were (commands, other lines, empty lines, lines that overflow).
C17_CursorZeroAfterNewline ==
    /\ (wire = <<>> /\ ~rxc) => m_rx_index = 0
    /\ (sent # <<>> /\ ~rxc /\ LastLine # <<>> /\ Len(wire) = Len(LastLine)) =>
           /\ m_received[0] = Ascii(LastLine[1])
           /\ m_rx_index = 1

\* C17, witness: after a line that is no command, the first byte of the
\* line s7 has been handled and lies at the start of the buffer.
C17_Witness ==
    /\ sent = << <<"x">>, <<"s", "7">> >>
    /\ ~rxc
    /\ Len(wire) = 2
    /\ m_received[0] = Ascii("s")
    /\ m_rx_index = 1

\* the motor is where the shared position says, and no coil step is under way
Quiet ==
    /\ ToUint16(previous_position) = m_stepper_position
    /\ pc \notin {"write", "hold"}

\* C18: the sender transmits finitely many lines, so from some point on no
\* position command completes; the loop then reaches a state from which on
\* the previous position equals the shared position and no coil is written.
\* Every copy of the shared position, once complete, is the position as it
\* stands, so a command completed during a rotation is taken by the next
\* iteration.
C18_SettlesAtTarget ==
    /\ <>[]Quiet
    /\ [](pc = "sei" => ToUint16(position) = m_stepper_position)

\* C18, witness: p2 and p65535 were handled, the loop has followed both and
\* the motor rests at -1: two clockwise and three counter-clockwise cycles,
\* or one counter-clockwise cycle.
C18_Witness ==
    /\ sent = << <<"p", "2">>, <<"p", "6", "5", "5", "3", "5">> >>
    /\ Processed
    /\ pc = "cli"
    /\ previous_position = -1
    /\ m_stepper_position = 65535
    /\ net = -1

C20_NoSentinelSnapshot ==
    delay \notin {INT16_MAX, ToUint16(INT16_MIN)}

====
